---- MODULE Spec2Model ----
(***************************************************************************)
(* Natural Language SQL Interface (app/server/server.py): the request      *)
(* handlers of the FastAPI server, the store they share (db/database.db),  *)
(* and the SQL security layer (core.sql_security, core.sql_processor) the   *)
(* handlers call.                                                          *)
(***************************************************************************)
EXTENDS Integers, Sequences, FiniteSets, TLC

VARIABLES
    tables,   \* the names of the tables of db/database.db
    req       \* per client: the request in flight (or the last one served)

vars == <<tables, req>>

(***************************************************************************)
(* Characters and names.  A name is a sequence of one-character strings.   *)
(***************************************************************************)
LowerLetters == {"d", "n", "o", "t", "u"}
UpperLetters == {"T", "U"}
Digits == {"1"}
IdentChars == LowerLetters \cup UpperLetters \cup Digits \cup {"_"}

lower_char(ch) ==
    CASE ch = "T" -> "t"
      [] ch = "U" -> "u"
      [] OTHER -> ch

\* str.lower()
lower(s) == [i \in 1..Len(s) |-> lower_char(s[i])]

\* str.replace(' ', '_')
replace_space(s) == [i \in 1..Len(s) |-> IF s[i] = " " THEN "_" ELSE s[i]]

\* str.endswith(suffix)
endswith(s, suffix) ==
    /\ Len(suffix) <= Len(s)
    /\ SubSeq(s, Len(s) - Len(suffix) + 1, Len(s)) = suffix

\* str.rsplit('.', 1)[0]: the part before the last dot, the whole string
\* when it holds no dot
rsplit_dot_head(s) ==
    LET dots == {i \in 1..Len(s) : s[i] = "."}
    IN  IF dots = {} THEN s
        ELSE SubSeq(s, 1, (CHOOSE i \in dots : \A j \in dots : j <= i) - 1)

ExtCsv == <<".", "c", "s", "v">>
ExtJson == <<".", "j", "s", "o", "n">>
ExtJsonl == <<".", "j", "s", "o", "n", "l">>
ExtTxt == <<".", "t", "x", "t">>

\* the longest identifier validate_identifier accepts
MaxIdentLen == 64

ReservedWords == { <<"o", "n">>, <<"t", "o">>, <<"d", "o">> }

\* validate_identifier(raw, kind) succeeds
ValidIdentifier(raw) ==
    /\ Len(raw) > 0
    /\ Len(raw) <= MaxIdentLen
    /\ \A i \in 1..Len(raw) : raw[i] \in IdentChars
    /\ raw[1] \notin Digits
    /\ lower(raw) \notin ReservedWords

(***************************************************************************)
(* Statements.  A statement is a sequence of tokens; a token is a keyword  *)
(* (or separator), an identifier, or the identifier placeholder {table}.   *)
(***************************************************************************)
Kw(s) == [kw |-> s, id |-> <<>>]
Id(n) == [kw |-> "", id |-> n]
PhTable == [kw |-> "{table}", id |-> <<>>]
Sep == Kw(";")

None == "None"

\* what the store and its helpers raise or report
SanitizedText == "Query execution failed"
RawOperationalError == "sqlite3.OperationalError: unable to open database file db/database.db"
RawDiagnostics == {RawOperationalError}

NoExc == [kind |-> None, text |-> None]
Exc(kind, text) == [kind |-> kind, text |-> text]

\* identifier_params: the binding of {table}, if any
NoParams == [bound |-> FALSE, table |-> <<>>]
TableParam(n) == [bound |-> TRUE, table |-> n]

\* Statement Template Engine: render(template, identifiers)
render(template, params) ==
    LET holes == {i \in 1..Len(template) : template[i] = PhTable}
    IN  IF holes # {} /\ ~params.bound
            THEN [exc |-> Exc("UnboundPlaceholderError", "no binding for {table}"),
                  stmt |-> <<>>]
        ELSE IF holes # {} /\ ~ValidIdentifier(params.table)
            THEN [exc |-> Exc("UnvalidatedIdentifierError", "invalid identifier for {table}"),
                  stmt |-> <<>>]
        ELSE [exc |-> NoExc,
              stmt |-> [i \in 1..Len(template) |->
                            IF i \in holes THEN Id(params.table) ELSE template[i]]]

\* Policy Gate: classify(statement) by its leading keyword
classify(stmt) ==
    IF \E i \in 1..Len(stmt) : stmt[i] = Sep THEN "REJECTED"
    ELSE IF Len(stmt) >= 1 /\ stmt[1].kw \in {"SELECT", "WITH"} THEN "READ"
    ELSE IF /\ Len(stmt) >= 2
            /\ stmt[1].kw \in {"DROP", "CREATE", "ALTER"}
            /\ stmt[2].kw = "TABLE" THEN "DDL"
    ELSE "REJECTED"

\* the identifier that follows the first keyword kw of the statement
\* (<<>> when there is none)
ident_after(stmt, kw) ==
    LET at == {i \in 1..(Len(stmt) - 1) : stmt[i].kw = kw /\ stmt[i + 1].kw = ""}
    IN  IF at = {} THEN <<>>
        ELSE stmt[(CHOOSE i \in at : \A j \in at : i <= j) + 1].id

\* the store's verdict on one statement the layer lets through.  DDL on a
\* table that exists succeeds and DROP TABLE IF EXISTS of a missing table is
\* a no-op; a statement that refers to a missing table is a NotFoundError.
\* env.fail: the store itself is unavailable (locked, unreadable);
\* env.nrows: how many rows the query selects.
store_execute(tbls, stmt, env) ==
    LET fail(kind) == [exc |-> Exc(kind, SanitizedText), rows |-> <<>>, tables |-> tbls]
        ok(rows, t) == [exc |-> NoExc, rows |-> rows, tables |-> t]
        ifExists == Len(stmt) >= 4 /\ stmt[3].kw = "IF" /\ stmt[4].kw = "EXISTS"
        target == ident_after(stmt, IF ifExists THEN "EXISTS" ELSE "TABLE")
    IN  IF env.fail THEN fail("UnknownExecutionError")
        ELSE IF stmt[1].kw = "DROP" THEN
            IF target = <<>> THEN fail("SyntaxError")
            ELSE IF target \in tbls \/ ifExists THEN ok(<<>>, tbls \ {target})
            ELSE fail("NotFoundError")
        ELSE IF stmt[1].kw = "CREATE" THEN
            IF target = <<>> THEN fail("SyntaxError")
            ELSE ok(<<>>, tbls \cup {target})
        ELSE IF stmt[1].kw = "ALTER" THEN
            IF target = <<>> THEN fail("SyntaxError")
            ELSE IF target \notin tbls THEN fail("NotFoundError")
            ELSE ok(<<>>, tbls)
        ELSE IF stmt[1].kw \in {"SELECT", "WITH"} THEN
            LET from == ident_after(stmt, "FROM")
            IN  IF from = <<>> THEN fail("SyntaxError")
                ELSE IF from \notin tbls THEN fail("NotFoundError")
                ELSE ok([i \in 1..env.nrows |-> i], tbls)
        ELSE fail("SyntaxError")

\* core.sql_security.execute_query_safely(conn, template, identifier_params,
\* allow_ddl): render, classify, gate, execute
execute_query_safely(tbls, template, params, allow_ddl, env) ==
    LET r == render(template, params)
        refuse(kind, text) == [exc |-> Exc(kind, text), rows |-> <<>>, tables |-> tbls]
    IN  IF r.exc # NoExc THEN [exc |-> r.exc, rows |-> <<>>, tables |-> tbls]
        ELSE IF classify(r.stmt) = "REJECTED"
            THEN refuse("RejectedStatementError", "statement kind is not supported")
        ELSE IF classify(r.stmt) = "DDL" /\ ~allow_ddl
            THEN refuse("DdlNotPermittedError", "DDL operations are not permitted")
        ELSE store_execute(tbls, r.stmt, env)

\* core.sql_processor.execute_sql_safely(sql): the statement goes through
\* the same gate, never with allow_ddl; the outcome comes back as a dict
execute_sql_safely(tbls, sql, env) ==
    LET r == execute_query_safely(tbls, sql, NoParams, FALSE, env)
    IN  IF r.exc # NoExc
            THEN [results |-> <<>>, columns |-> <<>>, error |-> r.exc.kind,
                  tables |-> r.tables]
        ELSE [results |-> r.rows, columns |-> <<"c1">>, error |-> None,
              tables |-> r.tables]

\* core.sql_security.check_table_exists(conn, name)
check_table_exists(tbls, name) == name \in tbls

(***************************************************************************)
(* Inputs.                                                                 *)
(***************************************************************************)
\* a bound: the most rows a query selects
MaxRows == 2

Clients == {"c1", "c2"}

NameT == <<"t">>
NameU == <<"u">>
NameInjection == <<"t", ";", " ", "d", " ", "t">>
NameDigitFirst == <<"1", "t">>
NameReserved == <<"o", "n">>
NameTooLong == [i \in 1..(MaxIdentLen + 1) |-> "t"]

\* the table names requests carry
ReqNames == {NameT, NameU, NameInjection, NameDigitFirst, NameReserved, NameTooLong, <<>>}

\* the names of uploaded files
FileNames ==
    { <<"T">> \o ExtCsv, <<"u">> \o ExtJson, <<"U">> \o ExtJsonl, <<"t">> \o ExtTxt,
      <<"T", " ", ";", ".", "u">> \o ExtJsonl }

\* what the store or a helper does this time
Envs == [fail : BOOLEAN, nrows : 0..MaxRows]

\* the statements over the tables `names`
Statements(names) ==
    UNION { { <<Kw("SELECT"), Kw("*"), Kw("FROM"), Id(n)>>,
              <<Kw("WITH"), Id(NameU), Kw("AS"), Kw("SELECT"), Kw("*"), Kw("FROM"), Id(n)>>,
              <<Kw("INSERT"), Kw("INTO"), Id(n)>>,
              <<Kw("UPDATE"), Id(n)>>,
              <<Kw("DELETE"), Kw("FROM"), Id(n)>>,
              <<Kw("DROP"), Kw("TABLE"), Id(n)>>,
              <<Kw("DROP"), Kw("TABLE"), Kw("IF"), Kw("EXISTS"), Id(n)>>,
              <<Kw("CREATE"), Kw("TABLE"), Id(n)>>,
              <<Kw("ALTER"), Kw("TABLE"), Id(n), Kw("ADD"), Kw("COLUMN"), Id(NameU)>>,
              <<Kw("PRAGMA"), Kw("table_info"), Id(n)>>,
              <<Kw("ATTACH"), Kw("DATABASE"), Id(n)>>,
              <<Kw("SELECT"), Kw("*"), Kw("FROM"), Id(n), Sep, Kw("DELETE"), Kw("FROM"), Id(n)>>,
              <<Kw("SELECT"), Kw("*"), Kw("FROM"), Id(n), Sep, Kw("DROP"), Kw("TABLE"), Id(n)>>,
              <<Kw("DROP"), Kw("TABLE"), Id(n), Sep>> } : n \in names }

\* what generate_sql may return: any statement at all
GenStatements == Statements({NameT})

\* the templates a caller of the layer may pass
Templates ==
    Statements({NameT, NameU}) \cup
    { <<Kw("DROP"), Kw("TABLE"), Kw("IF"), Kw("EXISTS"), PhTable>>,
      <<Kw("DROP"), Kw("TABLE"), PhTable>>,
      <<Kw("CREATE"), Kw("TABLE"), PhTable>>,
      <<Kw("ALTER"), Kw("TABLE"), PhTable, Kw("ADD"), Kw("COLUMN"), Id(NameU)>>,
      <<Kw("SELECT"), Kw("*"), Kw("FROM"), PhTable>>,
      <<Kw("DELETE"), Kw("FROM"), PhTable>> }

DropTemplate == <<Kw("DROP"), Kw("TABLE"), Kw("IF"), Kw("EXISTS"), PhTable>>

(***************************************************************************)
(* Requests and responses.                                                 *)
(***************************************************************************)
NoResult == [results |-> <<>>, columns |-> <<>>, error |-> None]
NoResp == [code |-> 0, detail |-> <<>>, results |-> <<>>, error |-> None]

\* raise HTTPException(code, detail)
HTTPException(code, detail) ==
    [code |-> code, detail |-> detail, results |-> <<>>, error |-> None]

\* a response model returned with status 200
Response(results, error) ==
    [code |-> 200, detail |-> <<>>, results |-> results, error |-> error]

\* a plain 200 response (a dict, a file)
Ok(detail) == [code |-> 200, detail |-> detail, results |-> <<>>, error |-> None]

\* await: the handler is suspended at an `await`; present0: the table the
\* request names was in the store when the request arrived
Idle ==
    [h |-> None, input |-> <<>>, table |-> <<>>, pc |-> "idle", await |-> FALSE,
     present0 |-> FALSE, conn |-> "none",
     validated |-> FALSE, touched |-> FALSE, acted |-> FALSE, exists |-> "unknown",
     ddl |-> FALSE, params |-> NoParams, sql |-> <<>>,
     result |-> NoResult, resp |-> NoResp, log |-> {}]

NewReq(h, input) == [Idle EXCEPT !.h = h, !.input = input, !.pc = "start"]

NamedHandlers ==
    {"delete_table", "export_table", "export_table_json", "generate_data_endpoint",
     "generate_insights_endpoint"}

PlainHandlers ==
    {"process_natural_language_query", "get_database_schema_endpoint", "health_check"}

\* sqlite3.connect("db/database.db") when the store cannot be opened
ConnectError == Exc("sqlite3.OperationalError", RawOperationalError)

Init ==
    /\ tables \in SUBSET {NameT, NameU}
    /\ req = [c \in Clients |-> Idle]

\* a client with no request in flight sends one
Receive(c) ==
    /\ req[c].pc = "idle"
    /\ \/ \E h \in NamedHandlers, n \in ReqNames :
              req' = [req EXCEPT ![c] =
                  [NewReq(h, n) EXCEPT !.table = n, !.present0 = (n \in tables)]]
       \/ \E f \in FileNames :
              req' = [req EXCEPT ![c] = NewReq("upload_file", f)]
       \/ \E h \in PlainHandlers :
              req' = [req EXCEPT ![c] = NewReq(h, <<>>)]
    /\ UNCHANGED tables

\* the request of c ends with response r; what the handler logged is kept
Done(r, resp, logged) ==
    [r EXCEPT !.pc = "done", !.resp = resp, !.log = r.log \cup logged]

(***************************************************************************)
(* DELETE /api/table/{table_name}                                          *)
(***************************************************************************)
\* validate_identifier(table_name, "table"); SQLSecurityError -> 400
delete_table_validate(c) ==
    LET r == req[c]
    IN  /\ r.h = "delete_table" /\ r.pc = "start"
        /\ req' = [req EXCEPT ![c] =
              IF ValidIdentifier(r.table)
                  THEN [r EXCEPT !.pc = "validated", !.validated = TRUE]
              ELSE Done(r, HTTPException(400, <<"Invalid table identifier">>), {})]
        /\ UNCHANGED tables

\* delete_table_check with the existence test inverted
delete_table_check_inverted(c) ==
    LET r == req[c]
    IN  /\ r.h = "delete_table" /\ r.pc = "validated"
        /\ \E fail \in BOOLEAN :
              req' = [req EXCEPT ![c] =
                  IF fail
                      THEN Done(r, HTTPException(500, <<"Error deleting table: ", ConnectError.text>>),
                                {ConnectError.text})
                  ELSE IF check_table_exists(tables, r.table)
                      THEN Done([r EXCEPT !.conn = "closed", !.touched = TRUE,
                                          !.exists = "present"],
                                HTTPException(404, <<"Table not found">>), {})
                  ELSE [r EXCEPT !.pc = "checked", !.conn = "open", !.touched = TRUE,
                                 !.exists = "absent"]]
        /\ UNCHANGED tables

\* delete_table_check with an await after the existence test
delete_table_check_awaits(c) ==
    LET r == req[c]
    IN  /\ r.h = "delete_table" /\ r.pc = "validated"
        /\ \E fail \in BOOLEAN :
              req' = [req EXCEPT ![c] =
                  IF fail
                      THEN Done(r, HTTPException(500, <<"Error deleting table: ", ConnectError.text>>),
                                {ConnectError.text})
                  ELSE IF ~check_table_exists(tables, r.table)
                      THEN Done([r EXCEPT !.conn = "closed", !.touched = TRUE,
                                          !.exists = "absent"],
                                HTTPException(404, <<"Table not found">>), {})
                  ELSE [r EXCEPT !.pc = "checked", !.conn = "open", !.touched = TRUE,
                                 !.exists = "present", !.await = TRUE]]
        /\ UNCHANGED tables

\* sqlite3.connect; check_table_exists; a missing table -> close, 404
delete_table_check(c) ==
    LET r == req[c]
    IN  /\ r.h = "delete_table" /\ r.pc = "validated"
        /\ \E fail \in BOOLEAN :
              req' = [req EXCEPT ![c] =
                  IF fail
                      THEN Done(r, HTTPException(500, <<"Error deleting table: ", ConnectError.text>>),
                                {ConnectError.text})
                  ELSE IF ~check_table_exists(tables, r.table)
                      THEN Done([r EXCEPT !.conn = "closed", !.touched = TRUE,
                                          !.exists = "absent"],
                                HTTPException(404, <<"Table not found">>), {})
                  ELSE [r EXCEPT !.pc = "checked", !.conn = "open", !.touched = TRUE,
                                 !.exists = "present"]]
        /\ UNCHANGED tables

\* delete_table_drop without the DDL permission
delete_table_drop_no_ddl(c) ==
    LET r == req[c]
    IN  /\ r.h = "delete_table" /\ r.pc = "checked"
        /\ \E env \in Envs :
              LET x == execute_query_safely(tables, DropTemplate, TableParam(r.table), FALSE, env)
                  q == [r EXCEPT !.sql = DropTemplate,
                                 !.params = TableParam(r.table),
                                 !.result = [NoResult EXCEPT !.error = x.exc.kind]]
              IN  /\ env.nrows = 0
                  /\ tables' = x.tables
                  /\ req' = [req EXCEPT ![c] =
                        IF x.exc # NoExc
                            THEN Done(q, HTTPException(500, <<"Error deleting table: ", x.exc.text>>),
                                      {x.exc.text})
                        ELSE [q EXCEPT !.pc = "dropped", !.acted = TRUE]]

\* execute_query_safely(conn, "DROP TABLE IF EXISTS {table}",
\*                      identifier_params={'table': table_name}, allow_ddl=True)
delete_table_drop(c) ==
    LET r == req[c]
    IN  /\ r.h = "delete_table" /\ r.pc = "checked"
        /\ \E env \in Envs :
              LET x == execute_query_safely(tables, DropTemplate, TableParam(r.table), TRUE, env)
                  q == [r EXCEPT !.ddl = TRUE, !.sql = DropTemplate,
                                 !.params = TableParam(r.table),
                                 !.result = [NoResult EXCEPT !.error = x.exc.kind]]
              IN  /\ env.nrows = 0
                  /\ tables' = x.tables
                  /\ req' = [req EXCEPT ![c] =
                        IF x.exc # NoExc
                            THEN Done(q, HTTPException(500, <<"Error deleting table: ", x.exc.text>>),
                                      {x.exc.text})
                        ELSE [q EXCEPT !.pc = "dropped", !.acted = TRUE]]

\* conn.commit(); conn.close(); the success response
delete_table_commit(c) ==
    LET r == req[c]
    IN  /\ r.h = "delete_table" /\ r.pc = "dropped"
        /\ req' = [req EXCEPT ![c] =
              Done([r EXCEPT !.conn = "closed"], Ok(<<"Table deleted successfully">>), {})]
        /\ UNCHANGED tables

(***************************************************************************)
(* POST /api/export/table and /api/export/table/json                       *)
(***************************************************************************)
\* what str() gives for the HTTPException(404) the JSON export catches
Str404 == "404: Table not found"

\* validate_identifier(request.table_name, "table"); the SQLSecurityError is
\* caught by `except Exception` and becomes a 500
export_validate(c, h, prefix) ==
    LET r == req[c]
    IN  /\ r.h = h /\ r.pc = "start"
        /\ req' = [req EXCEPT ![c] =
              IF ValidIdentifier(r.table)
                  THEN [r EXCEPT !.pc = "validated", !.validated = TRUE]
              ELSE Done(r, HTTPException(500, <<prefix, "Invalid table identifier">>),
                        {"Invalid table identifier"})]
        /\ UNCHANGED tables

\* sqlite3.connect; check_table_exists; a missing table -> close, raise
\* HTTPException(404), which `reraise` says the handler lets through
export_check(c, h, prefix, reraise) ==
    LET r == req[c]
    IN  /\ r.h = h /\ r.pc = "validated"
        /\ \E fail \in BOOLEAN :
              req' = [req EXCEPT ![c] =
                  IF fail
                      THEN Done(r, HTTPException(500, <<prefix, ConnectError.text>>),
                                {ConnectError.text})
                  ELSE IF ~check_table_exists(tables, r.table)
                      THEN Done([r EXCEPT !.conn = "closed", !.touched = TRUE,
                                          !.exists = "absent"],
                                IF reraise THEN HTTPException(404, <<"Table not found">>)
                                ELSE HTTPException(500, <<prefix, Str404>>),
                                IF reraise THEN {} ELSE {Str404})
                  ELSE [r EXCEPT !.pc = "checked", !.conn = "open", !.touched = TRUE,
                                 !.exists = "present"]]
        /\ UNCHANGED tables

\* generate_csv_from_table / generate_json_from_table(conn, table_name);
\* conn.close(); the file response
export_generate(c, h, prefix) ==
    LET r == req[c]
    IN  /\ r.h = h /\ r.pc = "checked"
        /\ \E fail \in BOOLEAN :
              req' = [req EXCEPT ![c] =
                  IF fail \/ ~check_table_exists(tables, r.table)
                      THEN Done(r, HTTPException(500, <<prefix, SanitizedText>>), {SanitizedText})
                  ELSE Done([r EXCEPT !.conn = "closed", !.acted = TRUE],
                            Ok(<<"attachment">>), {})]
        /\ UNCHANGED tables

export_table_validate(c) == export_validate(c, "export_table", "Error exporting table: ")
export_table_check(c) == export_check(c, "export_table", "Error exporting table: ", TRUE)
export_table_generate(c) == export_generate(c, "export_table", "Error exporting table: ")

export_table_json_validate(c) ==
    export_validate(c, "export_table_json", "Error exporting table as JSON: ")
export_table_json_check(c) ==
    export_check(c, "export_table_json", "Error exporting table as JSON: ", FALSE)
export_table_json_generate(c) ==
    export_generate(c, "export_table_json", "Error exporting table as JSON: ")

(***************************************************************************)
(* POST /api/generate-data                                                 *)
(***************************************************************************)
generate_data_validate(c) ==
    LET r == req[c]
    IN  /\ r.h = "generate_data_endpoint" /\ r.pc = "start"
        /\ req' = [req EXCEPT ![c] =
              IF ValidIdentifier(r.table)
                  THEN [r EXCEPT !.pc = "validated", !.validated = TRUE]
              ELSE Done(r, HTTPException(400, <<"Invalid table identifier">>), {})]
        /\ UNCHANGED tables

\* a failure that is no HTTPException comes back as a DataGenerationResponse
\* with error=str(e)
generate_data_check(c) ==
    LET r == req[c]
    IN  /\ r.h = "generate_data_endpoint" /\ r.pc = "validated"
        /\ \E fail \in BOOLEAN :
              req' = [req EXCEPT ![c] =
                  IF fail
                      THEN Done(r, Response(<<>>, ConnectError.text), {ConnectError.text})
                  ELSE IF ~check_table_exists(tables, r.table)
                      THEN Done([r EXCEPT !.conn = "closed", !.touched = TRUE,
                                          !.exists = "absent"],
                                HTTPException(404, <<"Table not found">>), {})
                  ELSE [r EXCEPT !.pc = "checked", !.conn = "open", !.touched = TRUE,
                                 !.exists = "present"]]
        /\ UNCHANGED tables

\* generate_table_data(conn, table_name) adds rows to the table; conn.close()
generate_data_generate(c) ==
    LET r == req[c]
    IN  /\ r.h = "generate_data_endpoint" /\ r.pc = "checked"
        /\ \E fail \in BOOLEAN :
              req' = [req EXCEPT ![c] =
                  IF fail \/ ~check_table_exists(tables, r.table)
                      THEN Done(r, Response(<<>>, SanitizedText), {SanitizedText})
                  ELSE Done([r EXCEPT !.conn = "closed", !.acted = TRUE],
                            Ok(<<"Generated rows">>), {})]
        /\ UNCHANGED tables

(***************************************************************************)
(* POST /api/insights                                                      *)
(***************************************************************************)
\* core.insights.generate_insights(table_name, column_names): reads the
\* table of that name
generate_insights(tbls, name, fail) ==
    IF name \notin tbls THEN Exc("NotFoundError", SanitizedText)
    ELSE IF fail THEN Exc("UnknownExecutionError", SanitizedText)
    ELSE NoExc

\* generate_insights(request.table_name, request.column_names): the name of
\* the request goes to the helper as it came; an exception comes back as
\* InsightsResponse(insights=[], error=str(e))
generate_insights_endpoint(c) ==
    LET r == req[c]
    IN  /\ r.h = "generate_insights_endpoint" /\ r.pc = "start"
        /\ \E fail \in BOOLEAN :
              LET x == generate_insights(tables, r.table, fail)
                  q == [r EXCEPT !.touched = TRUE, !.acted = (x = NoExc)]
              IN  req' = [req EXCEPT ![c] =
                      IF x # NoExc THEN Done(q, Response(<<>>, x.text), {x.text})
                      ELSE Done(q, Ok(<<"insights">>), {})]
        /\ UNCHANGED tables

(***************************************************************************)
(* POST /api/upload                                                        *)
(***************************************************************************)
Str400 == "400: Only .csv, .json, and .jsonl files are supported"

\* the file type check, the table name from the file name, await file.read()
upload_file_read(c) ==
    LET r == req[c]
    IN  /\ r.h = "upload_file" /\ r.pc = "start"
        /\ req' = [req EXCEPT ![c] =
              IF ~(endswith(r.input, ExtCsv) \/ endswith(r.input, ExtJson)
                       \/ endswith(r.input, ExtJsonl))
                  THEN Done(r, Response(<<>>, Str400), {Str400})
              ELSE [r EXCEPT !.pc = "read", !.await = TRUE,
                             !.table = replace_space(lower(rsplit_dot_head(r.input)))]]
        /\ UNCHANGED tables

\* core.file_processor.convert_*_to_sqlite(content, table_name): converts
\* the payload into a table of that name, unless the payload cannot be read
convert_to_sqlite(tbls, name, fail) ==
    IF fail
        THEN [exc |-> Exc("UnknownExecutionError", SanitizedText), tables |-> tbls]
    ELSE [exc |-> NoExc, tables |-> tbls \cup {name}]

\* convert_csv_to_sqlite / convert_jsonl_to_sqlite / convert_json_to_sqlite
\* (content, table_name): the name derived from the file name goes to the
\* helper as it is; an exception comes back as FileUploadResponse(error=str(e))
upload_file_convert(c) ==
    LET r == req[c]
    IN  /\ r.h = "upload_file" /\ r.pc = "read"
        /\ \E fail \in BOOLEAN :
              LET x == convert_to_sqlite(tables, r.table, fail)
                  q == [r EXCEPT !.await = FALSE, !.touched = TRUE,
                                 !.acted = (x.exc = NoExc)]
              IN  /\ tables' = x.tables
                  /\ req' = [req EXCEPT ![c] =
                        IF x.exc # NoExc THEN Done(q, Response(<<>>, x.exc.text), {x.exc.text})
                        ELSE Done(q, Ok(<<"uploaded">>), {})]

(***************************************************************************)
(* POST /api/query                                                         *)
(***************************************************************************)
\* get_database_schema(); generate_sql(request, schema_info)
query_generate(c) ==
    LET r == req[c]
    IN  /\ r.h = "process_natural_language_query" /\ r.pc = "start"
        /\ \/ \E sql \in GenStatements :
                  req' = [req EXCEPT ![c] = [r EXCEPT !.pc = "generated", !.sql = sql]]
           \/ req' = [req EXCEPT ![c] = Done(r, Response(<<>>, SanitizedText), {SanitizedText})]
        /\ UNCHANGED tables

\* query_execute with the statement run under allow_ddl=True
query_execute_allow_ddl(c) ==
    LET r == req[c]
    IN  /\ r.h = "process_natural_language_query" /\ r.pc = "generated"
        /\ \E env \in Envs :
              LET x == execute_query_safely(tables, r.sql, NoParams, TRUE, env)
                  res == [results |-> x.rows, columns |-> <<>>,
                          error |-> x.exc.kind]
                  q == [r EXCEPT !.result = res, !.acted = (res.error = None)]
              IN  /\ tables' = x.tables
                  /\ req' = [req EXCEPT ![c] =
                        IF res.error # None /\ res.error # ""
                            THEN Done(q, Response(<<>>, res.error), {res.error})
                        ELSE Done(q, Response(res.results, None), {})]

\* query_execute without the test of result['error']
query_execute_error_ignored(c) ==
    LET r == req[c]
    IN  /\ r.h = "process_natural_language_query" /\ r.pc = "generated"
        /\ \E env \in Envs :
              LET x == execute_sql_safely(tables, r.sql, env)
                  res == [results |-> x.results, columns |-> x.columns, error |-> x.error]
                  q == [r EXCEPT !.result = res, !.acted = (x.error = None)]
              IN  /\ tables' = x.tables
                  /\ req' = [req EXCEPT ![c] = Done(q, Response(res.results, None), {})]

\* query_execute with the error response keeping the rows of an earlier result
query_execute_rows_kept(c) ==
    LET r == req[c]
    IN  /\ r.h = "process_natural_language_query" /\ r.pc = "generated"
        /\ \E env \in Envs :
              LET x == execute_sql_safely(tables, r.sql, env)
                  res == [results |-> x.results, columns |-> x.columns, error |-> x.error]
                  q == [r EXCEPT !.result = res, !.acted = (x.error = None)]
              IN  /\ tables' = x.tables
                  /\ req' = [req EXCEPT ![c] =
                        IF res.error # None /\ res.error # ""
                            THEN Done(q, Response(<<1>>, res.error), {res.error})
                        ELSE Done(q, Response(res.results, None), {})]

\* execute_sql_safely(sql); an error in the result is raised and comes back
\* as QueryResponse(results=[], error=str(e))
query_execute(c) ==
    LET r == req[c]
    IN  /\ r.h = "process_natural_language_query" /\ r.pc = "generated"
        /\ \E env \in Envs :
              LET x == execute_sql_safely(tables, r.sql, env)
                  res == [results |-> x.results, columns |-> x.columns, error |-> x.error]
                  q == [r EXCEPT !.result = res, !.acted = (x.error = None)]
              IN  /\ tables' = x.tables
                  /\ req' = [req EXCEPT ![c] =
                        IF res.error # None /\ res.error # ""
                            THEN Done(q, Response(<<>>, res.error), {res.error})
                        ELSE Done(q, Response(res.results, None), {})]

(***************************************************************************)
(* GET /api/schema and GET /api/health                                     *)
(***************************************************************************)
get_database_schema_endpoint(c) ==
    LET r == req[c]
    IN  /\ r.h = "get_database_schema_endpoint" /\ r.pc = "start"
        /\ \E fail \in BOOLEAN :
              req' = [req EXCEPT ![c] =
                  IF fail THEN Done(r, Response(<<>>, SanitizedText), {SanitizedText})
                  ELSE Done([r EXCEPT !.acted = TRUE], Ok(<<"tables">>), {})]
        /\ UNCHANGED tables

\* sqlite3.connect; cursor.execute(SELECT name FROM sqlite_master ...);
\* conn.close(); a failure gives status="error" and no text
health_check(c) ==
    LET r == req[c]
    IN  /\ r.h = "health_check" /\ r.pc = "start"
        /\ \E connectFails \in BOOLEAN, executeFails \in BOOLEAN :
              req' = [req EXCEPT ![c] =
                  IF connectFails
                      THEN Done(r, Ok(<<"error">>), {ConnectError.text})
                  ELSE IF executeFails
                      THEN Done([r EXCEPT !.conn = "open"], Ok(<<"error">>), {ConnectError.text})
                  ELSE Done([r EXCEPT !.conn = "closed", !.acted = TRUE], Ok(<<"ok">>), {})]
        /\ UNCHANGED tables

(***************************************************************************)
(* A direct caller of the layer: execute_query_safely(conn, template,      *)
(* identifier_params, allow_ddl)                                           *)
(***************************************************************************)
ReceiveCall(c) ==
    /\ req[c].pc = "idle"
    /\ \E t \in Templates, n \in ReqNames, bound \in BOOLEAN, allow \in BOOLEAN :
          req' = [req EXCEPT ![c] =
              [NewReq("execute_query_safely", n) EXCEPT
                  !.sql = t, !.ddl = allow,
                  !.params = IF bound THEN TableParam(n) ELSE NoParams]]
    /\ UNCHANGED tables

core_execute(c) ==
    LET r == req[c]
    IN  /\ r.h = "execute_query_safely" /\ r.pc = "start"
        /\ \E env \in Envs :
              LET x == execute_query_safely(tables, r.sql, r.params, r.ddl, env)
                  res == [results |-> x.rows, columns |-> <<>>,
                          error |-> x.exc.kind]
              IN  /\ tables' = x.tables
                  /\ req' = [req EXCEPT ![c] =
                        Done([r EXCEPT !.result = res, !.acted = (x.exc = NoExc)],
                             Response(x.rows, x.exc.kind), {})]

\* the response is sent: the request is over
Complete(c) ==
    /\ req[c].pc = "done"
    /\ req' = [req EXCEPT ![c] = Idle]
    /\ UNCHANGED tables

(***************************************************************************)
(* The server: uvicorn runs the handlers as coroutines of one event loop.  *)
(* A handler runs from its first step until it returns or reaches an       *)
(* `await`; the steps of two handlers interleave only there.               *)
(***************************************************************************)
\* the request r does not hold the event loop: it has not started, it is
\* over, or its handler is suspended at an await
Yielded(r) == r.pc \in {"idle", "start", "done"} \/ r.await

\* the event loop is free for a step of client c
Holds(c) == \A d \in Clients \ {c} : Yielded(req[d])

Handle(c) ==
    \/ delete_table_validate(c)
    \/ delete_table_check(c)
    \/ delete_table_drop(c)
    \/ delete_table_commit(c)
    \/ export_table_validate(c)
    \/ export_table_check(c)
    \/ export_table_generate(c)
    \/ export_table_json_validate(c)
    \/ export_table_json_check(c)
    \/ export_table_json_generate(c)
    \/ generate_data_validate(c)
    \/ generate_data_check(c)
    \/ generate_data_generate(c)
    \/ generate_insights_endpoint(c)
    \/ upload_file_read(c)
    \/ upload_file_convert(c)
    \/ query_generate(c)
    \/ query_execute(c)
    \/ get_database_schema_endpoint(c)
    \/ health_check(c)

Run(c) == Holds(c) /\ Handle(c)

Next == \E c \in Clients : Receive(c) \/ Run(c) \/ Complete(c)

Spec == Init /\ [][Next]_vars

\* one client that also calls the layer directly
NextGate ==
    \/ Receive("c1") \/ Run("c1") \/ Complete("c1")
    \/ ReceiveCall("c1") \/ core_execute("c1")

SpecGate == Init /\ [][NextGate]_vars

(***************************************************************************)
(* Properties.                                                             *)
(***************************************************************************)
\* the step of client c that takes its request from pc `from` onwards
Steps(c, h, from) == req[c].h = h /\ req[c].pc = from /\ req'[c].pc # from

IsDdl(stmt) ==
    /\ Len(stmt) >= 2
    /\ stmt[1].kw \in {"DROP", "CREATE", "ALTER"}
    /\ stmt[2].kw = "TABLE"
    /\ \A i \in 1..Len(stmt) : stmt[i] # Sep

IsDropIfExists(stmt) ==
    /\ IsDdl(stmt) /\ stmt[1].kw = "DROP"
    /\ Len(stmt) >= 4 /\ stmt[3].kw = "IF" /\ stmt[4].kw = "EXISTS"

DdlTarget(stmt) == ident_after(stmt, IF IsDropIfExists(stmt) THEN "EXISTS" ELSE "TABLE")

Rejectable(stmt) ==
    \/ Len(stmt) >= 1 /\ stmt[1].kw \in {"INSERT", "UPDATE", "DELETE"}
    \/ \E i \in 1..Len(stmt) : stmt[i] = Sep

RowsPopulated(x) == Len(x.results) > 0
ErrorPopulated(x) == x.error # None

ExistenceHandlers ==
    {"delete_table", "export_table", "export_table_json", "generate_data_endpoint"}

\* C1: every store connection a request handler opens is closed before the
\* request completes, on every exit path: no finished request has its
\* connection still open.
C1_ConnectionsReleased ==
    \A c \in Clients : req[c].pc = "done" => req[c].conn # "open"

\* C2: in the handlers that take a table name (from the request or from the
\* name of the uploaded file), nothing touches the store with the name, no
\* connection is opened, no statement is built and no store helper is given
\* the name unless validate_identifier has succeeded on that name in the
\* same request.
C2_ValidatedBeforeStore ==
    \A c \in Clients :
        LET r == req[c]
        IN  (/\ r.h \in NamedHandlers \cup {"upload_file"}
             /\ (r.touched \/ r.conn # "none" \/ r.sql # <<>>))
                => (r.validated /\ ValidIdentifier(r.table))

\* C3: two deletes of the same existing table in flight together run one
\* after the other: at the DROP of a delete the table its check found is
\* still there and exactly that table leaves the store; a delete that
\* answers success has dropped its table; the delete that runs second finds
\* the table gone, answers 404 and leaves the store as it is.
C3_ConcurrentDeletes ==
    [][\A c \in Clients :
          LET r == req[c]
          IN  /\ Steps(c, "delete_table", "checked") =>
                    /\ r.table \in tables
                    /\ req'[c].pc = "dropped" => tables' = tables \ {r.table}
                    /\ req'[c].pc # "dropped" => tables' = tables
              /\ Steps(c, "delete_table", "dropped") =>
                    (req'[c].resp.code = 200 /\ r.table \notin tables /\ tables' = tables)
              /\ (Steps(c, "delete_table", "validated") /\ r.present0
                      /\ r.table \notin tables /\ req'[c].touched)
                    => (req'[c].pc = "done" /\ req'[c].resp.code = 404
                            /\ tables' = tables)]_vars

\* two deletes of "t" arrived while "t" was in the store; one answered 200,
\* the other 404, and only "t" is gone
C3_Witness ==
    \E c, d \in Clients :
        /\ c # d /\ req[c].table = NameT /\ req[d].table = NameT
        /\ req[c].h = "delete_table" /\ req[c].present0
        /\ req[c].pc = "done" /\ req[c].resp.code = 200
        /\ req[d].h = "delete_table" /\ req[d].present0
        /\ req[d].pc = "done" /\ req[d].resp.code = 404
        /\ NameT \notin tables /\ NameU \in tables

\* C4: DDL without allow_ddl fails with DdlNotPermittedError and leaves the
\* store unchanged; with allow_ddl and a validated identifier, DROP TABLE,
\* CREATE TABLE and ALTER TABLE succeed whenever the table exists (the store
\* being available), DROP TABLE removing exactly that table; DROP TABLE IF
\* EXISTS of a missing table is a successful no-op; the DROP of delete_table
\* runs with allow_ddl and is let through by the gate.
C4_DdlGate ==
    [][\A c \in Clients :
          /\ Steps(c, "execute_query_safely", "start") =>
                LET r == req[c]
                    rs == render(r.sql, r.params)
                    e == req'[c].result.error
                    t == DdlTarget(rs.stmt)
                IN  (rs.exc = NoExc /\ IsDdl(rs.stmt)) =>
                        /\ ~r.ddl => (e = "DdlNotPermittedError" /\ tables' = tables)
                        /\ (r.ddl /\ t \in tables)
                               => /\ e \in {None, "UnknownExecutionError"}
                                  /\ e # None => tables' = tables
                        /\ (r.ddl /\ rs.stmt[1].kw = "DROP" /\ t \in tables /\ e = None)
                               => tables' = tables \ {t}
                        /\ (r.ddl /\ IsDropIfExists(rs.stmt) /\ t \notin tables)
                               => (e \in {None, "UnknownExecutionError"} /\ tables' = tables)
          /\ Steps(c, "delete_table", "checked") =>
                (req'[c].ddl /\ req'[c].result.error \in {None, "UnknownExecutionError"})]_vars

\* an ALTER TABLE {table} with allow_ddl and the validated name "t" went
\* through on the existing table "t"
C4_Witness ==
    \E c \in Clients :
        /\ req[c].h = "execute_query_safely" /\ req[c].pc = "done" /\ req[c].ddl
        /\ req[c].sql[1] = Kw("ALTER") /\ req[c].sql[3] = PhTable
        /\ req[c].params = TableParam(NameT)
        /\ req[c].result.error = None /\ NameT \in tables

\* C5: a statement that begins with INSERT, UPDATE or DELETE, or that holds
\* a statement separator, is refused with RejectedStatementError whatever
\* allow_ddl is, with nothing executed (no rows, the store unchanged), in a
\* direct call of the layer and in the query endpoint alike.
C5_RejectedBeforeExecution ==
    [][\A c \in Clients :
          /\ Steps(c, "execute_query_safely", "start") =>
                LET rs == render(req[c].sql, req[c].params)
                IN  (rs.exc = NoExc /\ Rejectable(rs.stmt)) =>
                        /\ req'[c].result.error = "RejectedStatementError"
                        /\ req'[c].result.results = <<>>
                        /\ tables' = tables
          /\ (Steps(c, "process_natural_language_query", "generated") /\ Rejectable(req[c].sql)) =>
                /\ req'[c].resp.error = "RejectedStatementError"
                /\ req'[c].resp.results = <<>>
                /\ tables' = tables]_vars

\* the query endpoint answered "SELECT * FROM t; DELETE FROM t" with the
\* rejection
C5_Witness ==
    \E c \in Clients :
        /\ req[c].h = "process_natural_language_query" /\ req[c].pc = "done"
        /\ req[c].sql = <<Kw("SELECT"), Kw("*"), Kw("FROM"), Id(NameT), Sep,
                          Kw("DELETE"), Kw("FROM"), Id(NameT)>>
        /\ req[c].resp.error = "RejectedStatementError"
        /\ NameT \in tables

\* C6: only delete_table passes allow_ddl=True, and a table leaves the store
\* only in the DROP step of a delete_table request for that table.
C6_OnlyDeleteShrinksStore ==
    [][/\ \A c \in Clients : req'[c].ddl => req'[c].h = "delete_table"
       /\ \A t \in tables \ tables' :
             \E c \in Clients :
                 /\ Steps(c, "delete_table", "checked")
                 /\ req[c].table = t /\ req'[c].ddl]_vars

\* a delete dropped its table while a query that asked for DROP TABLE was
\* refused
C6_Witness ==
    \E c, d \in Clients :
        /\ req[c].h = "delete_table" /\ req[c].pc = "dropped" /\ req[c].ddl
        /\ req[c].table \notin tables
        /\ req[d].h = "process_natural_language_query" /\ req[d].pc = "done"
        /\ req[d].sql = <<Kw("DROP"), Kw("TABLE"), Id(NameT)>>
        /\ req[d].resp.error = "DdlNotPermittedError"

\* C7: the DROP of a delete removes exactly the named table, so that
\* check_table_exists is false for it afterwards; a delete whose existence
\* check finds the table missing reports 404 and changes nothing.
C7_DeletedTableIsGone ==
    [][\A c \in Clients :
          LET r == req[c]
          IN  /\ (r.h = "delete_table" /\ r.pc = "checked" /\ req'[c].pc = "dropped")
                    => (tables' = tables \ {r.table} /\ ~check_table_exists(tables', r.table))
              /\ (Steps(c, "delete_table", "validated") /\ req'[c].touched
                      /\ ~check_table_exists(tables, r.table))
                    => (req'[c].pc = "done" /\ req'[c].resp.code = 404 /\ tables' = tables)]_vars

\* one delete of a table succeeded and the next delete of it got 404
C7_Witness ==
    \E c, d \in Clients :
        /\ c # d /\ req[c].table = req[d].table
        /\ req[c].h = "delete_table" /\ req[c].pc = "done" /\ req[c].resp.code = 200
        /\ req[d].h = "delete_table" /\ req[d].pc = "done" /\ req[d].resp.code = 404
        /\ req[d].exists = "absent" /\ req[c].table \notin tables

\* C8: no response carries the raw text of a store exception: it goes to
\* the log only.
C8_NoRawTextInResponse ==
    \A c \in Clients :
        req[c].pc = "done" =>
            /\ \A i \in 1..Len(req[c].resp.detail) : req[c].resp.detail[i] \notin RawDiagnostics
            /\ req[c].resp.error \notin RawDiagnostics

\* C9 as stated: the result of executing a query, and the response of the
\* query endpoint, has exactly one of rows and error populated.
C9_ExactlyOneOfRowsAndError ==
    \A c \in Clients :
        LET r == req[c]
        IN  (r.h = "process_natural_language_query" /\ r.pc = "done") =>
                /\ RowsPopulated(r.resp) <=> ~ErrorPopulated(r.resp)
                /\ r.sql # <<>> => (RowsPopulated(r.result) <=> ~ErrorPopulated(r.result))

\* C9, amended: the result of executing a query, and the response of the
\* query endpoint, never has both rows and an error; it has neither only
\* when the query ran without error and selected no rows.
C9_NeverRowsAndError ==
    \A c \in Clients :
        LET r == req[c]
        IN  (r.h = "process_natural_language_query" /\ r.pc = "done") =>
                /\ ~(RowsPopulated(r.resp) /\ ErrorPopulated(r.resp))
                /\ ~(RowsPopulated(r.result) /\ ErrorPopulated(r.result))
                /\ (~RowsPopulated(r.resp) /\ ~ErrorPopulated(r.resp))
                       => (r.sql # <<>> /\ r.result.error = None /\ r.result.results = <<>>)
                /\ ErrorPopulated(r.result) => r.resp.error = r.result.error

\* a query that ran and selected no rows: neither rows nor error
C9_Witness ==
    \E c \in Clients :
        /\ req[c].h = "process_natural_language_query" /\ req[c].pc = "done"
        /\ classify(req[c].sql) = "READ" /\ req[c].acted
        /\ ~RowsPopulated(req[c].resp) /\ ~ErrorPopulated(req[c].resp)

\* C10: in the four handlers that check table existence, a request whose
\* check finds the table missing ends with 404 and performs no drop, export
\* or generation.
C10_MissingTableIs404 ==
    \A c \in Clients :
        LET r == req[c]
        IN  (r.h \in ExistenceHandlers /\ r.pc = "done" /\ r.exists = "absent")
                => (r.resp.code = 404 /\ ~r.acted)

====
